---- MODULE Spec2Model ----
(***************************************************************************)
(* libnds: the FIFO header-word codec (source/common/fifo_private.h) and   *)
(* the exit routine __libnds_exit (source/common/libnds_exit.c).           *)
(*                                                                         *)
(* A uint32_t is modelled as the set of its set bit positions, a subset of *)
(* 0..31, so that the bitwise operators of C are exact and keep the 32-bit *)
(* width.                                                                  *)
(***************************************************************************)
EXTENDS Integers, Sequences, FiniteSets

\* ------------------------------------------------------------------------
\* Bounds of the model
\* ------------------------------------------------------------------------

\* exit codes range over -MaxRC..MaxRC
MaxRC == 2

\* number of sampled patterns for the low 24 bits of a 32-bit input
NumLowSamples == 3

\* ------------------------------------------------------------------------
\* 32-bit unsigned arithmetic
\* ------------------------------------------------------------------------

WordBits == 0..31

\* the uint32_t whose upper half-word is hi and lower half-word is lo
Word32(hi, lo) ==
    {b \in 0..15 : (lo \div (2^b)) % 2 = 1}
        \cup {b \in 16..31 : (hi \div (2^(b - 16))) % 2 = 1}

BitAnd(a, b) == a \cap b

BitOr(a, b) == a \cup b

BitNot(a) == WordBits \ a

Shl(a, n) == {b + n : b \in a} \cap WordBits

Shr(a, n) == {b - n : b \in a} \cap WordBits

\* a - 1 modulo 2^32
Dec(a) ==
    IF a = {} THEN WordBits
    ELSE LET k == CHOOSE k \in a : \A j \in a : k <= j
         IN  (a \ {k}) \cup (0..(k - 1))

\* ------------------------------------------------------------------------
\* fifo_private.h: layout of the header word
\* ------------------------------------------------------------------------

FIFO_CHANNEL_BITS == 4

FIFO_CHANNEL_SHIFT == 32 - FIFO_CHANNEL_BITS

FIFO_NUM_CHANNELS == Shl(Word32(0, 1), FIFO_CHANNEL_BITS)

FIFO_CHANNEL_MASK == Dec(Shl(Word32(0, 1), FIFO_CHANNEL_BITS))

FIFO_ADDRESSBIT_SHIFT == FIFO_CHANNEL_SHIFT - 1

FIFO_ADDRESSBIT == Shl(Word32(0, 1), FIFO_ADDRESSBIT_SHIFT)

FIFO_IMMEDIATEBIT_SHIFT == FIFO_ADDRESSBIT_SHIFT - 1

FIFO_IMMEDIATEBIT == Shl(Word32(0, 1), FIFO_IMMEDIATEBIT_SHIFT)

FIFO_EXTRABIT_SHIFT == FIFO_IMMEDIATEBIT_SHIFT - 1

FIFO_EXTRABIT == Shl(Word32(0, 1), FIFO_EXTRABIT_SHIFT)

FIFO_UNPACK_CHANNEL(dataword) ==
    BitAnd(Shr(dataword, FIFO_CHANNEL_SHIFT), FIFO_CHANNEL_MASK)

\* ------------------------------------------------------------------------
\* fifo_private.h: 32-bit immediate value messages
\* ------------------------------------------------------------------------

FIFO_VALUE32_MASK == Dec(FIFO_EXTRABIT)

FIFO_IS_VALUE32(dataword) ==
    /\ BitAnd(dataword, FIFO_ADDRESSBIT) = {}
    /\ BitAnd(dataword, FIFO_IMMEDIATEBIT) # {}

\* faulty variant: the complement of the mask is forgotten
FIFO_VALUE32_NEEDEXTRA_NoComplement(value32) ==
    BitAnd(value32, FIFO_VALUE32_MASK) # {}

FIFO_VALUE32_NEEDEXTRA(value32) ==
    BitAnd(value32, BitNot(FIFO_VALUE32_MASK)) # {}

\* faulty variant: tests the immediate bit instead of the extra bit
FIFO_UNPACK_VALUE32_NEEDEXTRA_ImmediateBit(dataword) ==
    BitAnd(dataword, FIFO_IMMEDIATEBIT) # {}

FIFO_UNPACK_VALUE32_NEEDEXTRA(dataword) ==
    BitAnd(dataword, FIFO_EXTRABIT) # {}

\* faulty variant: the value is masked with the 24-bit address mask
FIFO_PACK_VALUE32_Mask24(chan, value32) ==
    BitOr(BitOr(Shl(chan, FIFO_CHANNEL_SHIFT), FIFO_IMMEDIATEBIT),
          BitAnd(value32, Word32(255, 65535)))

FIFO_PACK_VALUE32(chan, value32) ==
    BitOr(BitOr(Shl(chan, FIFO_CHANNEL_SHIFT), FIFO_IMMEDIATEBIT),
          BitAnd(value32, FIFO_VALUE32_MASK))

FIFO_UNPACK_VALUE32_NOEXTRA(dataword) ==
    BitAnd(dataword, FIFO_VALUE32_MASK)

FIFO_PACK_VALUE32_EXTRA(chan) ==
    BitOr(BitOr(Shl(chan, FIFO_CHANNEL_SHIFT), FIFO_IMMEDIATEBIT),
          FIFO_EXTRABIT)

\* ------------------------------------------------------------------------
\* fifo_private.h: address messages
\* ------------------------------------------------------------------------

FIFO_ADDRESSDATA_SHIFT == 0

FIFO_MINADDRESSDATABITS == 24

\* 0x00FFFFFF
FIFO_ADDRESSDATA_MASK == Word32(255, 65535)

\* 0x02000000
FIFO_ADDRESSBASE == Word32(512, 0)

\* 0xFF000000
FIFO_ADDRESSCOMPATIBLE == Word32(65280, 0)

\* faulty variant: the address is not masked
FIFO_PACK_ADDRESS_Unmasked(chan, address) ==
    BitOr(BitOr(Shl(chan, FIFO_CHANNEL_SHIFT), FIFO_ADDRESSBIT),
          Shr(address, FIFO_ADDRESSDATA_SHIFT))

FIFO_PACK_ADDRESS(chan, address) ==
    BitOr(BitOr(Shl(chan, FIFO_CHANNEL_SHIFT), FIFO_ADDRESSBIT),
          BitAnd(Shr(address, FIFO_ADDRESSDATA_SHIFT), FIFO_ADDRESSDATA_MASK))

FIFO_IS_ADDRESS_COMPATIBLE(address) ==
    BitAnd(address, FIFO_ADDRESSCOMPATIBLE) = FIFO_ADDRESSBASE

FIFO_IS_ADDRESS(dataword) ==
    BitAnd(dataword, FIFO_ADDRESSBIT) # {}

\* faulty variant: the base of main RAM is not restored
FIFO_UNPACK_ADDRESS_NoBase(dataword) ==
    Shl(BitAnd(dataword, FIFO_ADDRESSDATA_MASK), FIFO_ADDRESSDATA_SHIFT)

FIFO_UNPACK_ADDRESS(dataword) ==
    BitOr(Shl(BitAnd(dataword, FIFO_ADDRESSDATA_MASK), FIFO_ADDRESSDATA_SHIFT),
          FIFO_ADDRESSBASE)

\* ------------------------------------------------------------------------
\* fifo_private.h: data messages
\* ------------------------------------------------------------------------

FIFO_PACK_DATAMSG_HEADER(chan, numbytes) ==
    BitOr(Shl(chan, FIFO_CHANNEL_SHIFT), BitAnd(numbytes, FIFO_VALUE32_MASK))

FIFO_IS_DATA(dataword) ==
    BitAnd(dataword, BitOr(FIFO_ADDRESSBIT, FIFO_IMMEDIATEBIT)) = {}

FIFO_UNPACK_DATALENGTH(dataword) ==
    BitAnd(dataword, FIFO_VALUE32_MASK)

\* ------------------------------------------------------------------------
\* fifo_private.h: special commands
\* ------------------------------------------------------------------------

FIFO_IS_SPECIAL_COMMAND(dataword) ==
    /\ BitAnd(dataword, FIFO_ADDRESSBIT) # {}
    /\ BitAnd(dataword, FIFO_IMMEDIATEBIT) # {}

\* 0x00FFFFFF
FIFO_SPECIAL_COMMAND_MASK == Word32(255, 65535)

\* 0x4000C
FIFO_ARM9_REQUESTS_ARM7_RESET == Word32(4, 12)

\* 0x4000B
FIFO_ARM7_REQUESTS_ARM9_RESET == Word32(4, 11)

\* ------------------------------------------------------------------------
\* State
\* ------------------------------------------------------------------------

VARIABLES
    role,       \* "ARM9" or "ARM7": the processor the routine is built for
    rc,         \* the argument of __libnds_exit
    bootsig,    \* __transferRegion()->bootcode->bootsig
    bootcode,   \* the local pointer of __libnds_exit: "unset" or "bootstub"
    pc,         \* the position of __libnds_exit
    calls,      \* the calls __libnds_exit has made so far, in order
    chan,       \* codec input: the channel argument
    arg,        \* codec input: the value, address, length or word argument
    op,         \* the codec operation that was applied to the inputs
    words,      \* the transport words the sender produced
    out         \* what the receiving side decoded

exitVars == <<role, rc, bootsig, bootcode, pc, calls>>

codecVars == <<chan, arg, op, words, out>>

vars == <<role, rc, bootsig, bootcode, pc, calls, chan, arg, op, words, out>>

NoOut == [chan |-> {}, value |-> {}, flag |-> FALSE, kinds |-> {}, consumed |-> 0]

\* ------------------------------------------------------------------------
\* libnds_exit.c: __libnds_exit
\* ------------------------------------------------------------------------

\* the signature the bootstub carries ("bootstub" in ASCII)
BOOTSIG == "bootstub"

BootSigs == {BOOTSIG, "", "stubboot"}

\* a call of a collaborator with its arguments
Call(fn, args) == [fn |-> fn, args |-> args]

Init ==
    /\ role \in {"ARM9", "ARM7"}
    /\ rc \in (-MaxRC)..MaxRC
    /\ bootsig \in BootSigs
    /\ bootcode = "unset"
    /\ pc = "entry"
    /\ calls = <<>>
    /\ chan = {}
    /\ arg = {}
    /\ op = "none"
    /\ words = <<>>
    /\ out = NoOut

\* faulty variant: the hook is called whatever the exit code
CheckRc_Unconditional ==
    /\ pc = "entry"
    /\ calls' = Append(calls, Call("systemErrorExit", <<rc>>))
    /\ pc' = "in_systemErrorExit"
    /\ UNCHANGED <<role, rc, bootsig, bootcode>>
    /\ UNCHANGED codecVars

\* if (rc != 0) systemErrorExit(rc);
CheckRc ==
    /\ pc = "entry"
    /\ IF rc # 0
       THEN /\ calls' = Append(calls, Call("systemErrorExit", <<rc>>))
            /\ pc' = "in_systemErrorExit"
       ELSE /\ calls' = calls
            /\ pc' = "load_bootcode"
    /\ UNCHANGED <<role, rc, bootsig, bootcode>>
    /\ UNCHANGED codecVars

ReturnSystemErrorExit ==
    /\ pc = "in_systemErrorExit"
    /\ pc' = "load_bootcode"
    /\ UNCHANGED <<role, rc, bootsig, bootcode, calls>>
    /\ UNCHANGED codecVars

\* struct __bootstub *bootcode = __transferRegion()->bootcode;
LoadBootcode ==
    /\ pc = "load_bootcode"
    /\ calls' = Append(calls, Call("__transferRegion", <<>>))
    /\ bootcode' = "bootstub"
    /\ pc' = "check_bootsig"
    /\ UNCHANGED <<role, rc, bootsig>>
    /\ UNCHANGED codecVars

\* faulty variant: the code of the other direction is sent
ResetCmd_Arm9Code ==
    BitOr(BitOr(FIFO_ADDRESSBIT, FIFO_IMMEDIATEBIT), FIFO_ARM9_REQUESTS_ARM7_RESET)

\* uint32_t cmd = FIFO_ADDRESSBIT | FIFO_IMMEDIATEBIT | FIFO_ARM7_REQUESTS_ARM9_RESET;
ResetCmd ==
    BitOr(BitOr(FIFO_ADDRESSBIT, FIFO_IMMEDIATEBIT), FIFO_ARM7_REQUESTS_ARM9_RESET)

\* faulty variant: the reboot is not gated by the signature
Arm9Reboot_Ungated ==
    /\ pc = "check_bootsig"
    /\ role = "ARM9"
    /\ calls' = Append(calls, Call("arm9reboot", <<>>))
    /\ pc' = "in_arm9reboot"
    /\ UNCHANGED <<role, rc, bootsig, bootcode>>
    /\ UNCHANGED codecVars

\* #ifdef ARM9: bootcode->arm9reboot();
Arm9Reboot ==
    /\ pc = "check_bootsig"
    /\ bootsig = BOOTSIG
    /\ role = "ARM9"
    /\ calls' = Append(calls, Call("arm9reboot", <<>>))
    /\ pc' = "in_arm9reboot"
    /\ UNCHANGED <<role, rc, bootsig, bootcode>>
    /\ UNCHANGED codecVars

\* #ifdef ARM7: fifoInternalSend(cmd, 0, NULL);
Arm7SendReset ==
    /\ pc = "check_bootsig"
    /\ bootsig = BOOTSIG
    /\ role = "ARM7"
    /\ calls' = Append(calls, Call("fifoInternalSend", <<ResetCmd, 0, "NULL">>))
    /\ pc' = "in_fifoInternalSend"
    /\ UNCHANGED <<role, rc, bootsig, bootcode>>
    /\ UNCHANGED codecVars

\* else systemShutDown();
ShutDown ==
    /\ pc = "check_bootsig"
    /\ bootsig # BOOTSIG
    /\ calls' = Append(calls, Call("systemShutDown", <<>>))
    /\ pc' = "in_systemShutDown"
    /\ UNCHANGED <<role, rc, bootsig, bootcode>>
    /\ UNCHANGED codecVars

\* the collaborator that was called returns to __libnds_exit
ReturnCollaborator ==
    /\ pc \in {"in_arm9reboot", "in_fifoInternalSend", "in_systemShutDown"}
    /\ pc' = "halted"
    /\ UNCHANGED <<role, rc, bootsig, bootcode, calls>>
    /\ UNCHANGED codecVars

\* faulty variant: the routine returns to its caller instead of looping
Spin_Returns ==
    /\ pc = "halted"
    /\ pc' = "returned"
    /\ UNCHANGED <<role, rc, bootsig, bootcode, calls>>
    /\ UNCHANGED codecVars

\* while(1);
Spin ==
    /\ pc = "halted"
    /\ pc' = "halted"
    /\ UNCHANGED <<role, rc, bootsig, bootcode, calls>>
    /\ UNCHANGED codecVars

Next ==
    \/ CheckRc
    \/ ReturnSystemErrorExit
    \/ LoadBootcode
    \/ Arm9Reboot
    \/ Arm7SendReset
    \/ ShutDown
    \/ ReturnCollaborator
    \/ Spin

Spec == Init /\ [][Next]_vars

\* every collaborator call returns and the routine keeps running
FairSpec == Spec /\ WF_vars(Next)

\* ------------------------------------------------------------------------
\* The codec applied to sampled inputs
\* ------------------------------------------------------------------------

\* a pattern for the low 24 bits of an input
LowSample(i) ==
    CASE i = 1 -> Word32(0, 0)
      [] i = 2 -> Word32(255, 65535)
      [] i = 3 -> FIFO_ARM7_REQUESTS_ARM9_RESET
      [] OTHER -> Word32(i % 256, (i * 4369) % 65536)

\* every pattern of bits 24..31 over each sampled pattern of bits 0..23
Word32Samples ==
    {BitOr(Shl(Word32(0, t), FIFO_MINADDRESSDATABITS), LowSample(i)) :
        t \in 0..255, i \in 1..NumLowSamples}

Channels == {Word32(0, c) : c \in 0..15}

CodecInit ==
    /\ role = "ARM9"
    /\ rc = 0
    /\ bootsig = BOOTSIG
    /\ bootcode = "unset"
    /\ pc = "entry"
    /\ calls = <<>>
    /\ chan \in Channels
    /\ arg \in Word32Samples
    /\ op = "none"
    /\ words = <<>>
    /\ out = NoOut

\* the kinds the classification predicates report for a word
Kinds(dataword) ==
    {k \in {"DataHeader", "SmallImmediate", "LargeImmediateHeader",
            "Address", "SpecialCommand"} :
        \/ k = "DataHeader" /\ FIFO_IS_DATA(dataword)
        \/ k = "SmallImmediate" /\ FIFO_IS_VALUE32(dataword)
                                /\ ~FIFO_UNPACK_VALUE32_NEEDEXTRA(dataword)
        \/ k = "LargeImmediateHeader" /\ FIFO_IS_VALUE32(dataword)
                                      /\ FIFO_UNPACK_VALUE32_NEEDEXTRA(dataword)
        \/ k = "Address" /\ FIFO_IS_ADDRESS(dataword)
        \/ k = "SpecialCommand" /\ FIFO_IS_SPECIAL_COMMAND(dataword)}

Classify ==
    /\ op = "none"
    /\ op' = "CLASSIFY"
    /\ words' = <<arg>>
    /\ out' = [NoOut EXCEPT !.kinds = Kinds(arg)]
    /\ UNCHANGED <<chan, arg>>
    /\ UNCHANGED exitVars

ValueNeedExtra ==
    /\ op = "none"
    /\ op' = "VALUE32_NEEDEXTRA"
    /\ words' = <<>>
    /\ out' = [NoOut EXCEPT !.flag = FIFO_VALUE32_NEEDEXTRA(arg)]
    /\ UNCHANGED <<chan, arg>>
    /\ UNCHANGED exitVars

AddressCompatible ==
    /\ op = "none"
    /\ op' = "IS_ADDRESS_COMPATIBLE"
    /\ words' = <<>>
    /\ out' = [NoOut EXCEPT !.flag = FIFO_IS_ADDRESS_COMPATIBLE(arg)]
    /\ UNCHANGED <<chan, arg>>
    /\ UNCHANGED exitVars

PackValue32 ==
    /\ op = "none"
    /\ op' = "PACK_VALUE32"
    /\ words' = <<FIFO_PACK_VALUE32(chan, arg)>>
    /\ UNCHANGED <<chan, arg, out>>
    /\ UNCHANGED exitVars

PackValue32Extra ==
    /\ op = "none"
    /\ op' = "PACK_VALUE32_EXTRA"
    /\ words' = <<FIFO_PACK_VALUE32_EXTRA(chan)>>
    /\ UNCHANGED <<chan, arg, out>>
    /\ UNCHANGED exitVars

PackAddress ==
    /\ op = "none"
    /\ op' = "PACK_ADDRESS"
    /\ words' = <<FIFO_PACK_ADDRESS(chan, arg)>>
    /\ UNCHANGED <<chan, arg, out>>
    /\ UNCHANGED exitVars

PackDataMsgHeader ==
    /\ op = "none"
    /\ op' = "PACK_DATAMSG_HEADER"
    /\ words' = <<FIFO_PACK_DATAMSG_HEADER(chan, arg)>>
    /\ UNCHANGED <<chan, arg, out>>
    /\ UNCHANGED exitVars

UnpackValue32 ==
    /\ op = "PACK_VALUE32"
    /\ out = NoOut
    /\ out' = [NoOut EXCEPT !.chan = FIFO_UNPACK_CHANNEL(words[1]),
                            !.value = FIFO_UNPACK_VALUE32_NOEXTRA(words[1]),
                            !.consumed = 1]
    /\ UNCHANGED <<chan, arg, op, words>>
    /\ UNCHANGED exitVars

UnpackAddress ==
    /\ op = "PACK_ADDRESS"
    /\ out = NoOut
    /\ out' = [NoOut EXCEPT !.chan = FIFO_UNPACK_CHANNEL(words[1]),
                            !.value = FIFO_UNPACK_ADDRESS(words[1]),
                            !.consumed = 1]
    /\ UNCHANGED <<chan, arg, op, words>>
    /\ UNCHANGED exitVars

UnpackDataLength ==
    /\ op = "PACK_DATAMSG_HEADER"
    /\ out = NoOut
    /\ out' = [NoOut EXCEPT !.chan = FIFO_UNPACK_CHANNEL(words[1]),
                            !.value = FIFO_UNPACK_DATALENGTH(words[1]),
                            !.consumed = 1]
    /\ UNCHANGED <<chan, arg, op, words>>
    /\ UNCHANGED exitVars

\* the sender of a 32-bit value: one word when the value fits, else the
\* header with the extra bit followed by the raw value
SendValue32 ==
    /\ op = "none"
    /\ op' = "SEND_VALUE32"
    /\ words' = IF FIFO_VALUE32_NEEDEXTRA(arg)
                THEN <<FIFO_PACK_VALUE32_EXTRA(chan), arg>>
                ELSE <<FIFO_PACK_VALUE32(chan, arg)>>
    /\ UNCHANGED <<chan, arg, out>>
    /\ UNCHANGED exitVars

\* the receiver of a 32-bit value: the header's payload when the extra bit
\* is clear, else the next raw word (nothing when no word follows)
ReceiveValue32 ==
    /\ op = "SEND_VALUE32"
    /\ out = NoOut
    /\ out' = IF FIFO_UNPACK_VALUE32_NEEDEXTRA(words[1])
              THEN [NoOut EXCEPT !.chan = FIFO_UNPACK_CHANNEL(words[1]),
                                 !.flag = TRUE,
                                 !.value = IF Len(words) >= 2 THEN words[2] ELSE {},
                                 !.consumed = IF Len(words) >= 2 THEN 2 ELSE 1]
              ELSE [NoOut EXCEPT !.chan = FIFO_UNPACK_CHANNEL(words[1]),
                                 !.flag = FALSE,
                                 !.value = FIFO_UNPACK_VALUE32_NOEXTRA(words[1]),
                                 !.consumed = 1]
    /\ UNCHANGED <<chan, arg, op, words>>
    /\ UNCHANGED exitVars

CodecNext ==
    \/ Classify
    \/ ValueNeedExtra
    \/ AddressCompatible
    \/ PackValue32
    \/ PackValue32Extra
    \/ PackAddress
    \/ PackDataMsgHeader
    \/ UnpackValue32
    \/ UnpackAddress
    \/ UnpackDataLength
    \/ SendValue32
    \/ ReceiveValue32

CodecSpec == CodecInit /\ [][CodecNext]_vars

\* ------------------------------------------------------------------------
\* Properties
\* ------------------------------------------------------------------------

\* a < b as unsigned 32-bit numbers
ULess(a, b) ==
    \E k \in b \ a : \A j \in (k + 1)..31 : (j \in a) <=> (j \in b)

\* the number of calls of fn made so far
Count(fn) == Cardinality({i \in DOMAIN calls : calls[i].fn = fn})

Started(fn) == pc \in {"in_" \o fn, "halted"}

\* C1: on the ARM7, with a matching signature the routine sends exactly one
\* word, 0x0C04000B (a special command with payload 0x4000B) with no extra
\* words, and never shuts down; with a mismatched signature it shuts down
\* and never sends.
C1_Arm7ResetRequest ==
    role = "ARM7" =>
        /\ bootsig = BOOTSIG =>
            /\ Count("systemShutDown") = 0
            /\ Count("fifoInternalSend") <= 1
            /\ Started("fifoInternalSend") => Count("fifoInternalSend") = 1
            /\ \A i \in DOMAIN calls :
                calls[i].fn = "fifoInternalSend" =>
                    /\ calls[i].args = <<Word32(3076, 11), 0, "NULL">>
                    /\ FIFO_IS_SPECIAL_COMMAND(calls[i].args[1])
                    /\ BitAnd(calls[i].args[1], FIFO_SPECIAL_COMMAND_MASK)
                           = Word32(4, 11)
        /\ bootsig # BOOTSIG =>
            /\ Count("fifoInternalSend") = 0
            /\ Count("systemShutDown") <= 1
            /\ Started("systemShutDown") => Count("systemShutDown") = 1

C1_Witness ==
    /\ role = "ARM7"
    /\ bootsig = BOOTSIG
    /\ pc = "halted"
    /\ Count("fifoInternalSend") = 1

\* C2: every word is reported as exactly one of the five message kinds.
C2_ExactlyOneKind ==
    op = "CLASSIFY" => Cardinality(out.kinds) = 1

\* C3: no word made by the four normal encoders has the address bit and the
\* immediate bit set together, whatever the payload argument.
C3_EncodersNeverSpecial ==
    op \in {"PACK_VALUE32", "PACK_VALUE32_EXTRA", "PACK_ADDRESS",
            "PACK_DATAMSG_HEADER"} =>
        \A i \in DOMAIN words :
            /\ ~(27 \in words[i] /\ 26 \in words[i])
            /\ ~FIFO_IS_SPECIAL_COMMAND(words[i])

C3_Witness ==
    /\ op = "PACK_ADDRESS"
    /\ Len(words) = 1
    /\ 26 \in arg
    /\ 27 \in arg
    /\ ~FIFO_IS_ADDRESS_COMPATIBLE(arg)

\* C4: a value that fits in a small immediate is decoded unchanged, and so
\* is its channel.
C4_Value32RoundTrip ==
    (op = "PACK_VALUE32" /\ out.consumed = 1 /\ ~FIFO_VALUE32_NEEDEXTRA(arg)) =>
        /\ out.value = arg
        /\ out.chan = chan

C4_Witness ==
    /\ op = "PACK_VALUE32"
    /\ out.consumed = 1
    /\ arg = Word32(511, 65535)
    /\ chan = Word32(0, 15)
    /\ out.value = arg

\* C5: an address in main RAM is decoded unchanged, and no address outside
\* 0x02000000..0x02FFFFFF is compatible.
C5_AddressRoundTrip ==
    /\ (op = "PACK_ADDRESS" /\ out.consumed = 1
            /\ FIFO_IS_ADDRESS_COMPATIBLE(arg)) => out.value = arg
    /\ (op = "IS_ADDRESS_COMPATIBLE"
            /\ (ULess(arg, Word32(512, 0)) \/ ULess(Word32(767, 65535), arg)))
        => ~out.flag

C5_Witness ==
    /\ op = "PACK_ADDRESS"
    /\ out.consumed = 1
    /\ arg = Word32(767, 65535)
    /\ FIFO_IS_ADDRESS_COMPATIBLE(arg)
    /\ out.value = arg

\* C6: a value needs an extra word exactly when it is 2^25 or more, that is
\* when a bit at position 25 or above is set.
C6_NeedExtraBoundary ==
    op = "VALUE32_NEEDEXTRA" =>
        /\ ULess(arg, Word32(512, 0)) => ~out.flag
        /\ (\E b \in arg : b >= 25) => out.flag
        /\ arg = Word32(511, 65535) => ~out.flag
        /\ arg = Word32(512, 0) => out.flag

C6_Witness ==
    /\ op = "VALUE32_NEEDEXTRA"
    /\ arg = Word32(512, 0)
    /\ out.flag

\* C7: on the ARM9 nothing is ever sent; with a matching signature the
\* routine calls arm9reboot once and never shuts down, with a mismatched
\* one it shuts down once and never reboots.
C7_Arm9NeverSends ==
    role = "ARM9" =>
        /\ Count("fifoInternalSend") = 0
        /\ bootsig = BOOTSIG =>
            /\ Count("systemShutDown") = 0
            /\ Count("arm9reboot") <= 1
            /\ Started("arm9reboot") => Count("arm9reboot") = 1
        /\ bootsig # BOOTSIG =>
            /\ Count("arm9reboot") = 0
            /\ Count("systemShutDown") <= 1
            /\ Started("systemShutDown") => Count("systemShutDown") = 1

C7_Witness ==
    /\ role = "ARM9"
    /\ bootsig = BOOTSIG
    /\ pc = "halted"
    /\ Count("arm9reboot") = 1

\* C8: when every collaborator returns the routine reaches its final loop,
\* and from then on it stays there and makes no further call.
C8_HaltsForever ==
    /\ <>(pc = "halted")
    /\ [][pc = "halted" => (pc' = "halted" /\ calls' = calls)]_vars

C8_Witness ==
    /\ pc = "halted"
    /\ Len(calls) >= 2

\* the calls the routine makes after the error hook
ActionFor(r, match) ==
    IF ~match THEN <<Call("__transferRegion", <<>>), Call("systemShutDown", <<>>)>>
    ELSE IF r = "ARM9"
         THEN <<Call("__transferRegion", <<>>), Call("arm9reboot", <<>>)>>
         ELSE <<Call("__transferRegion", <<>>),
                Call("fifoInternalSend", <<Word32(3076, 11), 0, "NULL">>)>>

NotHook(c) == c.fn # "systemErrorExit"

\* C9: systemErrorExit(rc) is called once when rc is not 0 and never when it
\* is 0, before the boot descriptor is read and before any other call, and
\* the calls that follow depend on the role and the signature only.
C9_ErrorHook ==
    /\ Count("systemErrorExit") = (IF rc # 0 /\ pc # "entry" THEN 1 ELSE 0)
    /\ \A i \in DOMAIN calls :
        calls[i].fn = "systemErrorExit" => (i = 1 /\ calls[i].args = <<rc>>)
    /\ pc = "in_systemErrorExit" => (bootcode = "unset" /\ Len(calls) = 1)
    /\ pc = "halted" =>
        SelectSeq(calls, NotHook) = ActionFor(role, bootsig = BOOTSIG)

C9_Witness ==
    /\ rc # 0
    /\ pc = "halted"
    /\ calls[1] = Call("systemErrorExit", <<rc>>)
    /\ Len(calls) = 3

\* C10: the sender's framing of a 32-bit value and the receiver's agree: the
\* header is an immediate whose extra bit says whether the value needed an
\* extra word, and the receiver recovers the value and the channel from
\* exactly the words that were sent.
C10_FramingAgreement ==
    op = "SEND_VALUE32" =>
        /\ FIFO_IS_VALUE32(words[1])
        /\ FIFO_UNPACK_VALUE32_NEEDEXTRA(words[1]) = FIFO_VALUE32_NEEDEXTRA(arg)
        /\ out.consumed > 0 =>
            /\ out.value = arg
            /\ out.chan = chan
            /\ out.consumed = Len(words)

C10_Witness ==
    /\ op = "SEND_VALUE32"
    /\ out.consumed = 2
    /\ 31 \in arg
    /\ out.value = arg
    /\ out.chan = chan

====
